---- MODULE Spec2Model ----
(***************************************************************************)
(* A model of kartograf's bogon classifier (kartograf/bogon.py) and of the *)
(* run context (kartograf/context.py).                                     *)
(*                                                                         *)
(* Python integers are unbounded.  An integer n is written here as the     *)
(* pair <<hi, lo>> with n = hi * 2^16 + lo and 0 <= lo < 2^16, so that the *)
(* 32-bit ASN values of the source keep their exact value.  A Python str   *)
(* is a sequence of one-character strings.  The outcome of a call is a     *)
(* record: exc = "" and val = <<v>> for a returned value v, or exc naming  *)
(* the exception raised and val = <<>>.                                    *)
(***************************************************************************)
EXTENDS Integers, Sequences, FiniteSets, TLC

VARIABLES
    SPECIAL_IPV4_NETWORKS,  \* bogon.py:121, the module-level set of IPv4 networks
    SPECIAL_IPV6_NETWORKS,  \* bogon.py:122, the module-level set of IPv6 networks
    pc,                     \* the function called last ("start" before any call)
    arg,                    \* its first argument
    max_asn_encoding,       \* the ceiling passed to is_out_of_encoding_range
    result,                 \* its outcome
    first,                  \* an earlier call, kept to compare a later one with
    fs,                     \* the directories that exist (absolute paths)
    ctx,                    \* the Context constructed last, with the outcome of __init__
    runs,                   \* the number of runs so far
    creators                \* the epochs of the non-reproduction runs that created a
                            \* directory

vars == <<SPECIAL_IPV4_NETWORKS, SPECIAL_IPV6_NETWORKS, pc, arg, max_asn_encoding,
          result, first, fs, ctx, runs, creators>>

-----------------------------------------------------------------------------
(* Bounds of the model *)

\* brute-force ASN strings: every string of at most this many characters
MaxStrLen == 3
\* decorated ASN strings: at most this many "as" markers in each of two places
MaxAs == 1
\* decorated ASN strings: at most this many blanks on each side
MaxWs == 1
\* integer ASNs: this far on each side of every boundary value of the source;
\* CIDR literals: prefix lengths and flipped bits this far from an entry's length
MaxDelta == 2
\* at most this many runs of the program, one after the other
MaxRuns == 2

-----------------------------------------------------------------------------
(* Outcomes *)

Return(v) == [exc |-> "", val |-> <<v>>]
Raise(e) == [exc |-> e, val |-> <<>>]
Raised(r) == r.exc # ""
NoCall == [exc |-> "none", val |-> <<>>]

-----------------------------------------------------------------------------
(* Python int *)

Base == 2 ^ 16
PyInt(hi, lo) == <<hi, lo>>
FromSmall(v) == <<v \div Base, v % Base>>
Plus(n, d) == <<n[1] + ((n[2] + d) \div Base), (n[2] + d) % Base>>
\* n <= m
Le(n, m) == n[1] < m[1] \/ (n[1] = m[1] /\ n[2] <= m[2])
\* n > m
Gt(n, m) == n[1] > m[1] \/ (n[1] = m[1] /\ n[2] > m[2])

-----------------------------------------------------------------------------
(* Python str: lower, replace, strip, int *)

Digits == <<"0", "1", "2", "3", "4", "5", "6", "7", "8", "9">>
IsDigit(c) == \E i \in 1..10 : Digits[i] = c
DigitVal(c) == (CHOOSE i \in 1..10 : Digits[i] = c) - 1
IsSpace(c) == c = " "

\* str.lower
lower_char(c) == CASE c = "A" -> "a" [] c = "S" -> "s" [] c = "G" -> "g" [] OTHER -> c
lower(s) == [i \in 1..Len(s) |-> lower_char(s[i])]

\* a replace that drops one leading "as" only
replace_as_prefix(s) ==
    IF Len(s) >= 2 /\ s[1] = "a" /\ s[2] = "s" THEN SubSeq(s, 3, Len(s)) ELSE s

\* str.replace("as", ""): leftmost, non-overlapping occurrences, one pass
RECURSIVE replace_as(_)
replace_as(s) ==
    IF Len(s) < 2 THEN s
    ELSE IF s[1] = "a" /\ s[2] = "s" THEN replace_as(SubSeq(s, 3, Len(s)))
    ELSE <<s[1]>> \o replace_as(Tail(s))

\* str.strip
RECURSIVE lstrip(_)
lstrip(s) == IF s # <<>> /\ IsSpace(s[1]) THEN lstrip(Tail(s)) ELSE s
RECURSIVE rstrip(_)
rstrip(s) == IF s # <<>> /\ IsSpace(s[Len(s)]) THEN rstrip(SubSeq(s, 1, Len(s) - 1)) ELSE s
strip(s) == rstrip(lstrip(s))

\* a parser that takes digits only (no underscore separators)
RECURSIVE scan_digits_only(_, _, _)
scan_digits_only(s, acc, prev) ==
    IF s = <<>> THEN (IF prev = "digit" THEN acc ELSE -1)
    ELSE IF IsDigit(s[1]) THEN scan_digits_only(Tail(s), acc * 10 + DigitVal(s[1]), "digit")
    ELSE -1

\* int(str), base 10, as CPython parses it: blanks stripped, one optional sign,
\* then digits, with single underscores allowed between digits only.
\* scan_digits(s, acc, prev): prev is what was read last ("start", "digit", "_");
\* -1 stands for a syntax error.
RECURSIVE scan_digits(_, _, _)
scan_digits(s, acc, prev) ==
    IF s = <<>> THEN (IF prev = "digit" THEN acc ELSE -1)
    ELSE IF IsDigit(s[1]) THEN scan_digits(Tail(s), acc * 10 + DigitVal(s[1]), "digit")
    ELSE IF s[1] = "_" /\ prev = "digit" THEN scan_digits(Tail(s), acc, "_")
    ELSE -1

int_str(s) ==
    LET t == strip(s)
        neg == t # <<>> /\ t[1] = "-"
        body == IF t # <<>> /\ t[1] \in {"-", "+"} THEN Tail(t) ELSE t
        v == scan_digits(body, 0, "start")
    IN  IF v < 0 THEN Raise("ValueError")
        ELSE Return(FromSmall(IF neg THEN 0 - v ELSE v))

-----------------------------------------------------------------------------
(* bogon.py: the ASN functions.  An argument is [type |-> "int", v |-> n]  *)
(* or [type |-> "str", v |-> s].                                           *)

IntArg(n) == [type |-> "int", v |-> n]
StrArg(s) == [type |-> "str", v |-> s]

extract_asn(asn_raw) ==
    IF asn_raw.type = "int" THEN Return(asn_raw.v)
    ELSE int_str(strip(replace_as(lower(asn_raw.v))))

\* the reserved set without the last 32-bit ASN
reserved_asns_short ==
    { PyInt(0, 0), PyInt(0, 112), PyInt(0, 23456), PyInt(0, 65535) }

reserved_asns ==
    { PyInt(0, 0),          \* 0
      PyInt(0, 112),        \* 112
      PyInt(0, 23456),      \* 23456
      PyInt(0, 65535),      \* 65535
      PyInt(65535, 65535) } \* 4294967295

reserved_asn_ranges ==
    { <<PyInt(0, 64496), PyInt(0, 64511)>>,          \* (64496, 64511)
      <<PyInt(0, 64512), PyInt(0, 65534)>>,          \* (64512, 65534)
      <<PyInt(1, 0), PyInt(1, 15)>>,                 \* (65536, 65551)
      <<PyInt(1, 16), PyInt(1, 65535)>>,             \* (65552, 131071)
      <<PyInt(64086, 59904), PyInt(65535, 65534)>> } \* (4200000000, 4294967294)

\* a range test that leaves the end point out
in_range_open_end(asn, rng) == Le(rng[1], asn) /\ Le(asn, rng[2]) /\ asn # rng[2]

\* start <= asn <= end
in_range(asn, rng) == Le(rng[1], asn) /\ Le(asn, rng[2])

is_bogon_asn(asn_raw) ==
    LET e == extract_asn(asn_raw)
        asn == e.val[1]
    IN  IF Raised(e) THEN e
        ELSE IF asn \in reserved_asns THEN Return(TRUE)
        ELSE IF \E rng \in reserved_asn_ranges : in_range(asn, rng) THEN Return(TRUE)
        ELSE Return(FALSE)

\* a comparison that also counts the ceiling itself
exceeds_or_equal(asn, ceiling) == Gt(asn, ceiling) \/ asn = ceiling

\* asn > max_asn_encoding
exceeds(asn, ceiling) == Gt(asn, ceiling)

is_out_of_encoding_range(asn_raw, ceiling) ==
    LET e == extract_asn(asn_raw)
    IN  IF Raised(e) THEN e
        ELSE IF exceeds(e.val[1], ceiling) THEN Return(TRUE)
        ELSE Return(FALSE)

\* the default of the parameter max_asn_encoding: 33521664 = 511 * 2^16 + 32768
DefaultMaxAsnEncoding == PyInt(511, 32768)

-----------------------------------------------------------------------------
(* bogon.py: networks.  An address is the tuple of its groups (4 octets    *)
(* for IPv4, 8 hextets for IPv6), most significant first; addresses        *)
(* compare as the integers they spell.  A CIDR literal is                  *)
(* [version, addr, prefixlen] as written; a network is the same record     *)
(* with no host bit set.                                                   *)

GroupBits(version) == IF version = 4 THEN 8 ELSE 16
NGroups(version) == IF version = 4 THEN 4 ELSE 8
max_prefixlen(version) == GroupBits(version) * NGroups(version)

Lit4(a, b, c, d, len) == [version |-> 4, addr |-> <<a, b, c, d>>, prefixlen |-> len]
Lit6(a, b, c, d, e, f, g, h, len) ==
    [version |-> 6, addr |-> <<a, b, c, d, e, f, g, h>>, prefixlen |-> len]

SPECIAL_IPV4 ==
    << Lit4(0, 0, 0, 0, 8),
       Lit4(0, 0, 0, 0, 32),
       Lit4(10, 0, 0, 0, 8),
       Lit4(100, 64, 0, 0, 10),
       Lit4(127, 0, 0, 0, 8),
       Lit4(169, 254, 0, 0, 16),
       Lit4(172, 16, 0, 0, 12),
       Lit4(192, 0, 0, 0, 24),
       Lit4(192, 0, 0, 0, 29),
       Lit4(192, 0, 0, 8, 32),
       Lit4(192, 0, 0, 9, 32),
       Lit4(192, 0, 0, 10, 32),
       Lit4(192, 0, 0, 170, 32),
       Lit4(192, 0, 0, 171, 32),
       Lit4(192, 0, 2, 0, 24),
       Lit4(192, 31, 196, 0, 24),
       Lit4(192, 52, 193, 0, 24),
       Lit4(192, 168, 0, 0, 16),
       Lit4(192, 175, 48, 0, 24),
       Lit4(198, 18, 0, 0, 15),
       Lit4(198, 51, 100, 0, 24),
       Lit4(203, 0, 113, 0, 24),
       Lit4(224, 0, 0, 0, 4),
       Lit4(240, 0, 0, 0, 4),
       Lit4(255, 255, 255, 255, 32) >>

SPECIAL_IPV6 ==
    << Lit6(0, 0, 0, 0, 0, 0, 0, 0, 8),                   \* ::/8
       Lit6(\h64, \hff9b, 0, 0, 0, 0, 0, 0, 96),          \* 64:ff9b::/96
       Lit6(\h64, \hff9b, 1, 0, 0, 0, 0, 0, 48),          \* 64:ff9b:1::/48
       Lit6(\h100, 0, 0, 0, 0, 0, 0, 0, 64),              \* 100::/64
       Lit6(\h2001, 0, 0, 0, 0, 0, 0, 0, 23),             \* 2001::/23
       Lit6(\h2001, 0, 0, 0, 0, 0, 0, 0, 32),             \* 2001::/32
       Lit6(\h2001, 1, 0, 0, 0, 0, 0, 1, 128),            \* 2001:1::1/128
       Lit6(\h2001, 1, 0, 0, 0, 0, 0, 2, 128),            \* 2001:1::2/128
       Lit6(\h2001, 2, 0, 0, 0, 0, 0, 0, 48),             \* 2001:2::/48
       Lit6(\h2001, 3, 0, 0, 0, 0, 0, 0, 32),             \* 2001:3::/32
       Lit6(\h2001, 4, \h112, 0, 0, 0, 0, 0, 48),         \* 2001:4:112::/48
       Lit6(\h2001, \h20, 0, 0, 0, 0, 0, 0, 28),          \* 2001:20::/28
       Lit6(\h2001, \h30, 0, 0, 0, 0, 0, 0, 28),          \* 2001:30::/28
       Lit6(\h2001, \hdb8, 0, 0, 0, 0, 0, 0, 32),         \* 2001:db8::/32
       Lit6(\h2002, 0, 0, 0, 0, 0, 0, 0, 16),             \* 2002::/16
       Lit6(\h2620, \h4f, \h8000, 0, 0, 0, 0, 0, 48),     \* 2620:4f:8000::/48
       Lit6(\hfc00, 0, 0, 0, 0, 0, 0, 0, 7),              \* fc00::/7
       Lit6(\hfe80, 0, 0, 0, 0, 0, 0, 0, 10),             \* fe80::/10
       Lit6(\hff00, 0, 0, 0, 0, 0, 0, 0, 8) >>            \* ff00::/8

\* the number of network bits of group g under prefix length len
NetBitsIn(version, g, len) ==
    LET k == len - (g - 1) * GroupBits(version)
    IN  IF k < 0 THEN 0 ELSE IF k > GroupBits(version) THEN GroupBits(version) ELSE k

\* 2^(host bits of group g): the group's values share the network part modulo this
HostSize(version, g, len) == 2 ^ (GroupBits(version) - NetBitsIn(version, g, len))

\* address & netmask
masked(version, addr, len) ==
    [g \in 1..NGroups(version) |-> addr[g] - (addr[g] % HostSize(version, g, len))]

\* ip_network(prefix, strict=False): the host bits are masked off
ip_network_masking(prefix) ==
    IF prefix.prefixlen \notin 0..max_prefixlen(prefix.version) THEN Raise("ValueError")
    ELSE Return([prefix EXCEPT !.addr = masked(prefix.version, prefix.addr, prefix.prefixlen)])

\* ipaddress.ip_network(prefix): strict by default, a literal with host bits
\* set raises ValueError
ip_network(prefix) ==
    IF prefix.prefixlen \notin 0..max_prefixlen(prefix.version) THEN Raise("ValueError")
    ELSE IF masked(prefix.version, prefix.addr, prefix.prefixlen) # prefix.addr
        THEN Raise("ValueError")
    ELSE Return(prefix)

network_address(net) == net.addr

\* network address | hostmask
broadcast_address(net) ==
    [g \in 1..NGroups(net.version) |->
        net.addr[g] + HostSize(net.version, g, net.prefixlen) - 1]

\* a <= b for two addresses of one family
RECURSIVE AddrLe(_, _)
AddrLe(a, b) ==
    IF a = <<>> THEN TRUE
    ELSE IF a[1] # b[1] THEN a[1] < b[1]
    ELSE AddrLe(Tail(a), Tail(b))

\* a containment test that compares the network addresses only
subnet_of_low_only(a, b) ==
    IF a.version # b.version THEN Raise("TypeError")
    ELSE Return(AddrLe(network_address(b), network_address(a)))

\* a.subnet_of(b)
subnet_of(a, b) ==
    IF a.version # b.version THEN Raise("TypeError")
    ELSE Return(AddrLe(network_address(b), network_address(a))
                /\ AddrLe(broadcast_address(a), broadcast_address(b)))

\* any(network.subnet_of(special_net) for special_net in networks): every
\* member of a table has the table's family, so a family mismatch raises on
\* the first member whatever the iteration order
any_subnet_of(network, networks) ==
    IF \E n \in networks : Raised(subnet_of(network, n)) THEN Raise("TypeError")
    ELSE Return(\E n \in networks : subnet_of(network, n).val[1])

is_bogon_pfx(prefix, v4nets, v6nets) ==
    LET p == ip_network(prefix)
        network == p.val[1]
        networks == IF network.version = 4 THEN v4nets ELSE v6nets
    IN  IF Raised(p) THEN p ELSE any_subnet_of(network, networks)

\* lines 121-122: the tables built at import
Networks(literals) == { ip_network(literals[i]).val[1] : i \in 1..Len(literals) }

-----------------------------------------------------------------------------
(* The inputs of the classifier *)

\* the values where the ASN functions change their answer
Boundaries ==
    reserved_asns \cup { rng[1] : rng \in reserved_asn_ranges }
                  \cup { rng[2] : rng \in reserved_asn_ranges }
                  \cup { DefaultMaxAsnEncoding }

Interior ==
    { PyInt(0, 13335), PyInt(0, 65001), PyInt(0, 65000), PyInt(30000, 0),
      PyInt(65000, 0), PyInt(-1, 65535), PyInt(65536, 0) }

IntInputs == { Plus(b, d) : b \in Boundaries, d \in (0 - MaxDelta)..MaxDelta } \cup Interior

Ceilings == Boundaries \cup { PyInt(0, 12) }
StrCeilings == { DefaultMaxAsnEncoding, PyInt(0, 12) }

Alphabet == { "a", "s", "A", " ", "-", "+", "_", "1", "0", "g" }
BruteStrings == UNION { [1..m -> Alphabet] : m \in 0..MaxStrLen }

Blanks(k) == [i \in 1..k |-> " "]
RECURSIVE Rep(_, _)
Rep(tok, k) == IF k = 0 THEN <<>> ELSE tok \o Rep(tok, k - 1)
AsVariants == { <<"a", "s">>, <<"A", "S">>, <<"A", "s">>, <<"a", "S">> }
Numerals ==
    { <<"0">>, <<"7">>, <<"1", "1", "2">>, <<"1", "3", "3", "3", "5">>,
      <<"6", "4", "5", "0", "0">>, <<"6", "5", "0", "0", "0">> }
\* the digits of a number with "as" markers put in at two places and blanks around
DecoratedOf(ds) ==
    UNION { { Blanks(l) \o SubSeq(ds, 1, ij[1]) \o Rep(v, a) \o SubSeq(ds, ij[1] + 1, ij[2]) \o Rep(w, b)
                \o SubSeq(ds, ij[2] + 1, Len(ds)) \o Blanks(t) :
                v \in AsVariants, w \in { <<"a", "s">>, <<"A", "S">> },
                a \in 0..MaxAs, b \in 0..MaxAs, l \in 0..MaxWs, t \in 0..MaxWs } :
            ij \in { x \in (0..Len(ds)) \X (0..Len(ds)) : x[1] <= x[2] } }
DecoratedStrings == UNION { DecoratedOf(ds) : ds \in Numerals }

StrInputs == BruteStrings \cup DecoratedStrings

\* CIDR literals around every entry of the two lists: the entry's address with
\* one bit near the prefix boundary flipped (or none), at lengths near the
\* entry's, written as is or with the host bits cleared
FlipBit(version, addr, p) ==
    IF p = 0 THEN addr
    ELSE LET w == GroupBits(version)
             g == ((p - 1) \div w) + 1
             weight == 2 ^ (w - 1 - ((p - 1) % w))
         IN  [addr EXCEPT ![g] = IF (addr[g] \div weight) % 2 = 1
                                 THEN addr[g] - weight ELSE addr[g] + weight]

Near(version, len) ==
    { k \in (len - MaxDelta)..(len + MaxDelta) : k >= 0 /\ k <= max_prefixlen(version) }

LiteralsNear(e) ==
    LET raw == { [version |-> e.version, addr |-> FlipBit(e.version, e.addr, p), prefixlen |-> len] :
                    p \in Near(e.version, e.prefixlen),
                    len \in Near(e.version, e.prefixlen) \cup {0, max_prefixlen(e.version)} }
    IN  raw \cup { [q EXCEPT !.addr = masked(q.version, q.addr, q.prefixlen)] : q \in raw }

OtherLiterals ==
    { Lit4(8, 8, 8, 0, 24), Lit4(10, 1, 2, 3, 8), Lit4(10, 0, 0, 0, 33), Lit4(1, 2, 3, 4, 32),
      Lit6(\h2606, \h4700, 0, 0, 0, 0, 0, 0, 32), Lit6(\hfd00, 0, 0, 0, 0, 0, 0, 1, 7),
      Lit6(\h2001, \hdb8, 0, 0, 0, 0, 0, 1, 129) }

PfxInputs ==
    UNION { LiteralsNear(SPECIAL_IPV4[i]) : i \in 1..Len(SPECIAL_IPV4) }
    \cup UNION { LiteralsNear(SPECIAL_IPV6[i]) : i \in 1..Len(SPECIAL_IPV6) }
    \cup OtherLiterals

-----------------------------------------------------------------------------
(* The calls.  Each is the whole function: it reads the tables and leaves  *)
(* every module-level name as it was.                                      *)

NoFirst == [pc |-> "none"]
NoCtx == [exc |-> "none"]

ContextIdle == UNCHANGED <<fs, ctx, runs, creators>>

\* a call that takes the entries it matched out of the table
Call_is_bogon_pfx_consuming(prefix) ==
    /\ pc' = "is_bogon_pfx"
    /\ arg' = prefix
    /\ result' = is_bogon_pfx(prefix, SPECIAL_IPV4_NETWORKS, SPECIAL_IPV6_NETWORKS)
    /\ SPECIAL_IPV4_NETWORKS' =
         { n \in SPECIAL_IPV4_NETWORKS : ~(result'.exc = "" /\ prefix.version = 4
                                            /\ subnet_of(prefix, n).val[1]) }
    /\ UNCHANGED <<SPECIAL_IPV6_NETWORKS, max_asn_encoding>>
    /\ ContextIdle

Call_is_bogon_pfx(prefix) ==
    /\ pc' = "is_bogon_pfx"
    /\ arg' = prefix
    /\ result' = is_bogon_pfx(prefix, SPECIAL_IPV4_NETWORKS, SPECIAL_IPV6_NETWORKS)
    /\ UNCHANGED <<SPECIAL_IPV4_NETWORKS, SPECIAL_IPV6_NETWORKS, max_asn_encoding>>
    /\ ContextIdle

Call_is_bogon_asn(asn_raw) ==
    /\ pc' = "is_bogon_asn"
    /\ arg' = asn_raw
    /\ result' = is_bogon_asn(asn_raw)
    /\ UNCHANGED <<SPECIAL_IPV4_NETWORKS, SPECIAL_IPV6_NETWORKS, max_asn_encoding>>
    /\ ContextIdle

Call_extract_asn(asn_raw) ==
    /\ pc' = "extract_asn"
    /\ arg' = asn_raw
    /\ result' = extract_asn(asn_raw)
    /\ UNCHANGED <<SPECIAL_IPV4_NETWORKS, SPECIAL_IPV6_NETWORKS, max_asn_encoding>>
    /\ ContextIdle

Call_is_out_of_encoding_range(asn_raw, ceiling) ==
    /\ pc' = "is_out_of_encoding_range"
    /\ arg' = asn_raw
    /\ max_asn_encoding' = ceiling
    /\ result' = is_out_of_encoding_range(asn_raw, ceiling)
    /\ UNCHANGED <<SPECIAL_IPV4_NETWORKS, SPECIAL_IPV6_NETWORKS>>
    /\ ContextIdle

\* the state after import of bogon.py, before any call
Loaded ==
    /\ SPECIAL_IPV4_NETWORKS = Networks(SPECIAL_IPV4)
    /\ SPECIAL_IPV6_NETWORKS = Networks(SPECIAL_IPV6)
    /\ pc = "start"
    /\ result = NoCall
    /\ first = NoFirst
    /\ fs = {}
    /\ ctx = NoCtx
    /\ runs = 0
    /\ creators = {}

-----------------------------------------------------------------------------
(* SpecPfx: is_bogon_pfx applied once to each literal of PfxInputs *)

InitPfx == Loaded /\ arg \in PfxInputs /\ max_asn_encoding = DefaultMaxAsnEncoding
ApplyIsBogonPfx == pc = "start" /\ Call_is_bogon_pfx(arg) /\ UNCHANGED first
NextPfx == ApplyIsBogonPfx
SpecPfx == InitPfx /\ [][NextPfx]_vars

(* SpecAsn: each ASN function applied once to each integer and string *)

InitAsn ==
    /\ Loaded
    /\ \/ arg \in { IntArg(n) : n \in IntInputs } /\ max_asn_encoding \in Ceilings
       \/ arg \in { StrArg(s) : s \in StrInputs } /\ max_asn_encoding \in StrCeilings
ApplyExtractAsn == pc = "start" /\ Call_extract_asn(arg) /\ UNCHANGED first
ApplyIsBogonAsn == pc = "start" /\ Call_is_bogon_asn(arg) /\ UNCHANGED first
ApplyIsOutOfEncodingRange ==
    pc = "start" /\ Call_is_out_of_encoding_range(arg, max_asn_encoding) /\ UNCHANGED first
NextAsn == ApplyExtractAsn \/ ApplyIsBogonAsn \/ ApplyIsOutOfEncodingRange
SpecAsn == InitAsn /\ [][NextAsn]_vars

(* SpecCalls: any sequence of calls of the four functions.  One earlier     *)
(* call, chosen freely, is kept in first.                                  *)

CallPrefixes ==
    { Lit4(10, 0, 0, 0, 8), Lit4(10, 1, 2, 3, 8), Lit4(8, 8, 8, 0, 24), Lit4(192, 0, 0, 8, 32),
      Lit4(0, 0, 0, 0, 0), Lit6(\hfc00, 0, 0, 0, 0, 0, 0, 0, 7),
      Lit6(\h2606, \h4700, 0, 0, 0, 0, 0, 0, 32) }
CallInts == { PyInt(0, 0), PyInt(0, 13335), PyInt(65535, 65535), PyInt(511, 32769) }
CallStrs == { <<"A", "S", "6", "4", "5", "0", "0">>, <<"g">>, <<"-", "5">> }

InitCalls == Loaded /\ arg = <<>> /\ max_asn_encoding = DefaultMaxAsnEncoding

Remember ==
    \/ first' = first
    \/ /\ first = NoFirst
       /\ first' = [pc |-> pc', arg |-> arg', ceiling |-> max_asn_encoding',
                    result |-> result']

AnyIsBogonPfx == \E prefix \in CallPrefixes : Call_is_bogon_pfx(prefix) /\ Remember
AnyIsBogonAsnInt == \E n \in CallInts : Call_is_bogon_asn(IntArg(n)) /\ Remember
AnyIsBogonAsnStr == \E s \in CallStrs : Call_is_bogon_asn(StrArg(s)) /\ Remember
AnyExtractAsnInt == \E n \in CallInts : Call_extract_asn(IntArg(n)) /\ Remember
AnyExtractAsnStr == \E s \in CallStrs : Call_extract_asn(StrArg(s)) /\ Remember
AnyIsOutOfEncodingRangeInt ==
    \E n \in CallInts, ceiling \in StrCeilings :
        Call_is_out_of_encoding_range(IntArg(n), ceiling) /\ Remember
AnyIsOutOfEncodingRangeStr ==
    \E s \in CallStrs, ceiling \in StrCeilings :
        Call_is_out_of_encoding_range(StrArg(s), ceiling) /\ Remember
NextCalls ==
    \/ AnyIsBogonPfx
    \/ AnyIsBogonAsnInt
    \/ AnyIsBogonAsnStr
    \/ AnyExtractAsnInt
    \/ AnyExtractAsnStr
    \/ AnyIsOutOfEncodingRangeInt
    \/ AnyIsOutOfEncodingRangeStr
SpecCalls == InitCalls /\ [][NextCalls]_vars

-----------------------------------------------------------------------------
(* context.py.  A str is a sequence of characters as before; a path is a   *)
(* sequence of component names, absolute when it starts with Root.  A      *)
(* path given as a str (args.reproduce) also records whether it ends in    *)
(* "/".  fs is the set of directories that exist.                          *)

None == <<"<None>">>
Unset == <<"<unset>">>
\* Python truth of an optional str
Truthy(x) == x # None /\ x # <<>>

Root == <<"/">>
Cwd == <<Root, <<"w">>>>
NoPath == [given |-> FALSE, path |-> <<>>, slash |-> FALSE]
StrPath(p, slash) == [given |-> TRUE, path |-> p, slash |-> slash]

IsAbs(p) == p # <<>> /\ p[1] = Root
\* pathlib's p / q
Join(p, q) == IF IsAbs(q) THEN q ELSE p \o q
\* a path as the operating system resolves it
Resolve(p) == Join(Cwd, p)
\* Path(p).exists(), Path.is_dir(p)
exists(dirs, p) == Resolve(p) \in dirs
\* Path(p).iterdir(): the names in p
listdir(dirs, p) ==
    { d[Len(d)] : d \in { x \in dirs : Len(x) = Len(Resolve(p)) + 1
                                        /\ SubSeq(x, 1, Len(x) - 1) = Resolve(p) } }

\* what exists once the first k of the mkdir calls have succeeded
after_mkdirs(dirs, targets, k) ==
    dirs \cup UNION { { SubSeq(Resolve(targets[i]), 1, n) : n \in 1..Len(Resolve(targets[i])) } :
                        i \in 1..k }

\* the mkdir calls of lines 60-71 in order; the first that finds its
\* directory there raises FileExistsError and ends them
mkdirs(dirs, targets) ==
    LET failing == { k \in 1..Len(targets) :
                        exists(after_mkdirs(dirs, targets, k - 1), targets[k]) }
        k0 == CHOOSE k \in failing : \A j \in failing : k <= j
    IN  IF failing = {} THEN [exc |-> "", fs |-> after_mkdirs(dirs, targets, Len(targets))]
        ELSE [exc |-> "FileExistsError", fs |-> after_mkdirs(dirs, targets, k0 - 1)]

\* int(x) of lines 90 and 95: TypeError for None
int_of(x) == IF x = None THEN Raise("TypeError") ELSE int_str(x)

\* lines 14-19
epoch_of(args, now) ==
    IF Truthy(args.wait) THEN args.wait
    ELSE IF Truthy(args.epoch) THEN args.epoch
    ELSE now

\* lines 23-28: the names in args.reproduce that are directories, where the
\* path tested is args.reproduce / folder and folder already starts with
\* args.reproduce
source_folders(dirs, args) ==
    { name \in listdir(dirs, args.reproduce.path) :
        exists(dirs, Join(args.reproduce.path, args.reproduce.path \o <<name>>)) }

\* lines 83-95: [exc, epoch_dir, epoch_datetime]
set_epoch_dirs(reproduce, epoch, args) ==
    IF reproduce /\ Truthy(epoch)
    THEN LET repro_epoch == int_of(args.epoch)
         IN  IF Raised(repro_epoch)
             THEN [exc |-> repro_epoch.exc, epoch_dir |-> Unset, epoch_datetime |-> Unset]
             ELSE [exc |-> "", epoch_dir |-> <<"r">> \o epoch,
                   epoch_datetime |-> repro_epoch.val[1]]
    ELSE LET t == int_of(epoch)
         IN  IF Raised(t)
             THEN [exc |-> t.exc, epoch_dir |-> epoch, epoch_datetime |-> Unset]
             ELSE [exc |-> "", epoch_dir |-> epoch, epoch_datetime |-> t.val[1]]

\* a test that never finds the folder
data_dir_taken_never(dirs, data_dir, reproduce) == FALSE

\* line 45
data_dir_taken(dirs, data_dir, reproduce) == exists(dirs, data_dir) /\ ~reproduce

\* the attributes of a Context before __init__ sets them
Blank(args) ==
    [exc |-> "", args |-> args, epoch |-> Unset, reproduce |-> FALSE,
     epoch_dir |-> Unset, epoch_datetime |-> Unset, data_dir |-> Unset,
     data_dir_irr |-> Unset, data_dir_rpki_cache |-> Unset, data_dir_rpki_tals |-> Unset,
     data_dir_collectors |-> Unset, out_dir |-> Unset, out_dir_irr |-> Unset,
     out_dir_rpki |-> Unset, out_dir_collectors |-> Unset, final_result_file |-> Unset,
     max_encode |-> Unset, debug_log |-> Unset]

\* lines 22-32: args after the sources were detected
detect_sources(dirs, args) ==
    IF args.reproduce.given
    THEN [args EXCEPT !.irr = <<"irr">> \in source_folders(dirs, args),
                      !.routeviews = <<"collectors">> \in source_folders(dirs, args)]
    ELSE args

\* lines 36-43: args after "/" was appended to args.reproduce
with_slash(args) ==
    IF args.reproduce.given THEN [args EXCEPT !.reproduce.slash = TRUE] ELSE args
data_dir_of(args, epoch_dir) ==
    IF args.reproduce.given THEN args.reproduce.path
    ELSE Cwd \o << <<"data">>, epoch_dir >>

\* lines 49-57
with_paths(c, data_dir, out_dir) ==
    [c EXCEPT
        !.data_dir_irr = data_dir \o << <<"irr">> >>,
        !.data_dir_rpki_cache = data_dir \o << <<"rpki">>, <<"cache">> >>,
        !.data_dir_rpki_tals = data_dir \o << <<"rpki">>, <<"tals">> >>,
        !.data_dir_collectors = data_dir \o << <<"collectors">> >>,
        !.out_dir = out_dir,
        !.out_dir_irr = out_dir \o << <<"irr">> >>,
        !.out_dir_rpki = out_dir \o << <<"rpki">> >>,
        !.out_dir_collectors = out_dir \o << <<"collectors">> >>]

\* lines 60-71: the directories to make, in order
mkdir_targets(c) ==
    (IF c.reproduce THEN <<>>
     ELSE <<c.data_dir_rpki_cache, c.data_dir_rpki_tals>>
          \o (IF c.args.irr THEN <<c.data_dir_irr>> ELSE <<>>)
          \o (IF c.args.routeviews THEN <<c.data_dir_collectors>> ELSE <<>>))
    \o <<c.out_dir_rpki>>
    \o (IF c.args.irr THEN <<c.out_dir_irr>> ELSE <<>>)
    \o (IF c.args.routeviews THEN <<c.out_dir_collectors>> ELSE <<>>)

\* lines 73-80
with_results(c) ==
    [c EXCEPT
        !.final_result_file = c.out_dir \o << <<"final_result.txt">> >>,
        !.max_encode = c.args.max_encode,
        !.debug_log = IF c.args.debug THEN c.out_dir \o << <<"debug.log">> >> ELSE <<>>]

Failed(c, exc) == [c EXCEPT !.exc = exc]

\* what a run leaves: the Context as far as __init__ got (exc names the
\* exception that ended it) and the directories
Leaves(args, c, dirs) ==
    /\ ctx' = c
    /\ fs' = dirs
    /\ creators' = IF ~args.reproduce.given /\ dirs # fs
                   THEN creators \cup { c.epoch } ELSE creators

\* one run of the program: Context.__init__(args) at time now.  A value
\* computed once by the code is bound once, by \E over a singleton.
Run(args, now) ==
    /\ runs < MaxRuns
    /\ runs' = runs + 1
    /\ UNCHANGED <<SPECIAL_IPV4_NETWORKS, SPECIAL_IPV6_NETWORKS, pc, arg, max_asn_encoding,
                   result, first>>
    /\ \E c1 \in { [Blank(args) EXCEPT !.epoch = epoch_of(args, now),
                                       !.reproduce = args.reproduce.given] } :
        IF c1.reproduce /\ ~exists(fs, args.reproduce.path)
        THEN Leaves(args, Failed(c1, "FileNotFoundError"), fs)
        ELSE
        \E args1 \in { detect_sources(fs, args) } :
        \E e \in { set_epoch_dirs(c1.reproduce, c1.epoch, args1) } :
        \E c2 \in { [c1 EXCEPT !.args = args1, !.epoch_dir = e.epoch_dir,
                               !.epoch_datetime = e.epoch_datetime] } :
            IF e.exc # "" THEN Leaves(args, Failed(c2, e.exc), fs)
            ELSE
            \E c3 \in { [c2 EXCEPT !.args = with_slash(args1),
                                   !.data_dir = data_dir_of(args1, e.epoch_dir)] } :
                IF data_dir_taken(fs, c3.data_dir, c3.reproduce)
                THEN Leaves(args, Failed(c3, "SystemExit"), fs)
                ELSE
                \E c4 \in { with_paths(c3, c3.data_dir, Cwd \o << <<"out">>, c3.epoch_dir >>) } :
                \E made \in { mkdirs(fs, mkdir_targets(c4)) } :
                    IF made.exc # "" THEN Leaves(args, Failed(c4, made.exc), made.fs)
                    ELSE Leaves(args, with_results(c4), made.fs)

(* SpecCtx: runs of the program one after the other in one working directory *)

Waits == { None, <<"2">> }
EpochArgs == { None, <<"1">>, <<"r", "1">> }
Times == { <<"3">> }
ReproArgs ==
    { NoPath,
      StrPath(Cwd \o << <<"data">>, <<"1">> >>, FALSE),
      StrPath(<< <<"data">>, <<"1">> >>, TRUE) }
Args ==
    [wait : Waits, epoch : EpochArgs, reproduce : ReproArgs, irr : BOOLEAN,
     routeviews : BOOLEAN, debug : BOOLEAN, max_encode : { DefaultMaxAsnEncoding }]

InitCtx ==
    /\ SPECIAL_IPV4_NETWORKS = Networks(SPECIAL_IPV4)
    /\ SPECIAL_IPV6_NETWORKS = Networks(SPECIAL_IPV6)
    /\ pc = "start"
    /\ arg = <<>>
    /\ max_asn_encoding = DefaultMaxAsnEncoding
    /\ result = NoCall
    /\ first = NoFirst
    /\ fs = { <<Root>>, Cwd }
    /\ ctx = NoCtx
    /\ runs = 0
    /\ creators = {}
NextCtx == \E args \in Args, now \in Times : Run(args, now)
SpecCtx == InitCtx /\ [][NextCtx]_vars

-----------------------------------------------------------------------------
(* Properties of the classifier *)

\* bit p (1 is the most significant) of an address
Bit(version, addr, p) ==
    LET w == GroupBits(version)
    IN  (addr[((p - 1) \div w) + 1] \div (2 ^ (w - 1 - ((p - 1) % w)))) % 2

ValidLen(q) == q.prefixlen \in 0..max_prefixlen(q.version)
HostBitsSet(q) ==
    \E p \in (q.prefixlen + 1)..max_prefixlen(q.version) : Bit(q.version, q.addr, p) = 1
\* q is equal to or more specific than e: at least as long, and the same in e's bits
MoreSpecific(q, e) ==
    /\ q.prefixlen >= e.prefixlen
    /\ \A p \in 1..e.prefixlen : Bit(q.version, q.addr, p) = Bit(e.version, e.addr, p)
\* some entry of q's family, in either table, covers q
Covered(q) ==
    \E e \in SPECIAL_IPV4_NETWORKS \cup SPECIAL_IPV6_NETWORKS :
        e.version = q.version /\ MoreSpecific(q, e)
ClearHostBits(q) ==
    [q EXCEPT !.addr = [g \in 1..NGroups(q.version) |->
        LET w == GroupBits(q.version)
        IN  q.addr[g] - (q.addr[g] % (2 ^ (w - NetBitsIn(q.version, g, q.prefixlen))))]]

\* C1: for a CIDR literal that parses (valid length, no host bit set),
\* is_bogon_pfx returns a boolean, true exactly when some entry of the table of
\* the literal's own family is equal to or broader than it; a /0 is never a bogon.
C1_SubnetOfSomeEntry ==
    (pc = "is_bogon_pfx" /\ ValidLen(arg) /\ ~HostBitsSet(arg)) =>
        /\ result = Return(Covered(arg))
        /\ (arg.prefixlen = 0 => result = Return(FALSE))

\* a literal strictly inside 10.0.0.0/8 is classified a bogon
C1_Witness ==
    /\ pc = "is_bogon_pfx"
    /\ arg = Lit4(10, 128, 0, 0, 9)
    /\ result = Return(TRUE)

\* C2 as stated: a literal with host bits set is classified as the network it
\* masks to.
C2_MasksHostBits ==
    (pc = "is_bogon_pfx" /\ ValidLen(arg) /\ HostBitsSet(arg)) =>
        result = Return(Covered(ClearHostBits(arg)))

\* C2 amended: a literal with host bits set is rejected with ValueError and no
\* value is returned.
C2_RejectsHostBits ==
    (pc = "is_bogon_pfx" /\ ValidLen(arg) /\ HostBitsSet(arg)) =>
        result = Raise("ValueError")

\* 10.1.2.3/8 is rejected
C2_Witness ==
    /\ pc = "is_bogon_pfx"
    /\ arg = Lit4(10, 1, 2, 3, 8)
    /\ result = Raise("ValueError")

Between(n, lo, hi) == ~Gt(lo, n) /\ ~Gt(n, hi)
\* the reserved values and ranges as the specification lists them
ListedReserved(n) ==
    \/ n \in { FromSmall(0), FromSmall(112), FromSmall(23456), FromSmall(65535),
               PyInt(65535, 65535) }
    \/ Between(n, FromSmall(64496), FromSmall(64511))
    \/ Between(n, FromSmall(64512), FromSmall(65534))
    \/ Between(n, FromSmall(65536), FromSmall(65551))
    \/ Between(n, FromSmall(65552), FromSmall(131071))
    \/ Between(n, PyInt(64086, 59904), PyInt(65535, 65534))

\* C3: for an integer n, is_bogon_asn(n) is true exactly when n is a listed
\* reserved value or lies in a listed range, ends included; 64495 and 131072
\* are not bogons.
C3_ReservedExactly ==
    (pc = "is_bogon_asn" /\ arg.type = "int") =>
        /\ result = Return(ListedReserved(arg.v))
        /\ (arg.v \in { FromSmall(64495), FromSmall(131072) } => result = Return(FALSE))

\* the last value of a range is a bogon
C3_Witness ==
    /\ pc = "is_bogon_asn"
    /\ arg = IntArg(FromSmall(131071))
    /\ result = Return(TRUE)

\* C4 as stated: 65001 is not a bogon, 0, 65535 and 4294967295 are.
C4_Examples ==
    pc = "is_bogon_asn" =>
        /\ (arg.type = "int" /\ arg.v = FromSmall(65001) => result = Return(FALSE))
        /\ (arg.type = "int" /\ arg.v \in { FromSmall(0), FromSmall(65535), PyInt(65535, 65535) }
                => result = Return(TRUE))

\* C4 amended: 65001 lies in the private-use range 64512..65534 and is a bogon,
\* like 0, 65535 and 4294967295.
C4_ExamplesAllBogon ==
    (pc = "is_bogon_asn" /\ arg.type = "int"
        /\ arg.v \in { FromSmall(65001), FromSmall(0), FromSmall(65535), PyInt(65535, 65535) })
    => result = Return(TRUE)

C4_Witness ==
    /\ pc = "is_bogon_asn"
    /\ arg = IntArg(FromSmall(65001))
    /\ result = Return(TRUE)

AsnCalls == { "extract_asn", "is_bogon_asn", "is_out_of_encoding_range" }
\* what is left of a string after lower-casing, removing "as" and stripping
Remainder(s) == strip(replace_as(lower(s)))
PlainUnsigned(r) == r # <<>> /\ \A i \in 1..Len(r) : IsDigit(r[i])
\* an optional sign, then digits with single underscores between digits
Unsigned(b) ==
    /\ b # <<>>
    /\ \A i \in 1..Len(b) :
        \/ IsDigit(b[i])
        \/ b[i] = "_" /\ i > 1 /\ i < Len(b) /\ IsDigit(b[i - 1]) /\ IsDigit(b[i + 1])
IntLiteral(r) ==
    IF r # <<>> /\ r[1] \in { "-", "+" } THEN Unsigned(Tail(r)) ELSE Unsigned(r)
HasDigit(r) == \E i \in 1..Len(r) : IsDigit(r[i])

\* C5 as stated: the three ASN functions fail on every string whose remainder
\* is not a plain unsigned base-10 integer.
C5_FailsUnlessPlainUnsigned ==
    (pc \in AsnCalls /\ arg.type = "str" /\ ~PlainUnsigned(Remainder(arg.v))) =>
        Raised(result)

\* C5 amended: the three ASN functions fail, with ValueError and no value,
\* exactly on the strings whose remainder is not an integer literal (optional
\* sign, digits, single underscores between digits): an empty remainder and a
\* remainder without digits fail, a signed or underscored number does not.
C5_FailsUnlessIntLiteral ==
    (pc \in AsnCalls /\ arg.type = "str") =>
        /\ Raised(result) <=> ~IntLiteral(Remainder(arg.v))
        /\ Raised(result) => result = Raise("ValueError")
        /\ ~HasDigit(Remainder(arg.v)) => Raised(result)

\* a non-numeric string makes is_bogon_asn fail
C5_Witness ==
    /\ pc = "is_bogon_asn"
    /\ arg = StrArg(<<"g", "a", "s">>)
    /\ result = Raise("ValueError")

\* C6: for integers n and c, is_out_of_encoding_range(n, c) is true exactly
\* when n > c; at the default ceiling 33521664 is in range and 33521665 is not.
C6_StrictlyAboveCeiling ==
    (pc = "is_out_of_encoding_range" /\ arg.type = "int") =>
        /\ result = Return(~Le(arg.v, max_asn_encoding))
        /\ (arg.v = max_asn_encoding => result = Return(FALSE))
        /\ (arg.v = Plus(max_asn_encoding, 1) => result = Return(TRUE))
        /\ (max_asn_encoding = PyInt(511, 32768) /\ arg.v = PyInt(511, 32769)
                => result = Return(TRUE))

\* 33521665 is no bogon and is out of the default range
C6_Witness ==
    /\ pc = "is_out_of_encoding_range"
    /\ arg = IntArg(PyInt(511, 32769))
    /\ max_asn_encoding = PyInt(511, 32768)
    /\ is_bogon_asn(arg) = Return(FALSE)
    /\ result = Return(TRUE)

\* a string made of digits and "as" markers in any case, with blanks around
RECURSIVE DigitsAndMarkers(_)
DigitsAndMarkers(s) ==
    IF s = <<>> THEN TRUE
    ELSE IF IsDigit(s[1]) THEN DigitsAndMarkers(Tail(s))
    ELSE IF Len(s) >= 2 /\ s[1] \in { "a", "A" } /\ s[2] \in { "s", "S" }
        THEN DigitsAndMarkers(SubSeq(s, 3, Len(s)))
    ELSE FALSE
Decorated(s) ==
    /\ HasDigit(s)
    /\ \E i \in 1..Len(s), j \in 1..Len(s) :
        /\ \A k \in 1..Len(s) : (k < i \/ k > j) => s[k] = " "
        /\ DigitsAndMarkers(SubSeq(s, i, j))
\* the number the digits of s spell
RECURSIVE Spelled(_, _)
Spelled(s, acc) ==
    IF s = <<>> THEN acc
    ELSE Spelled(Tail(s), IF IsDigit(s[1]) THEN acc * 10 + DigitVal(s[1]) ELSE acc)
NumberOf(s) == IntArg(FromSmall(Spelled(s, 0)))

\* C7: on the digits of n with "as" markers (any case, anywhere) and blanks
\* around, extract_asn returns n and the two predicates answer as for the
\* integer n; extract_asn returns an integer unchanged.
C7_MarkersAndBlanksIgnored ==
    /\ (pc \in AsnCalls /\ arg.type = "str" /\ Decorated(arg.v)) =>
        /\ pc = "extract_asn" => result = Return(NumberOf(arg.v).v)
        /\ pc = "is_bogon_asn" => result = is_bogon_asn(NumberOf(arg.v))
        /\ pc = "is_out_of_encoding_range" =>
                result = is_out_of_encoding_range(NumberOf(arg.v), max_asn_encoding)
    /\ (pc = "extract_asn" /\ arg.type = "int") => result = Return(arg.v)

\* a marker in the middle of the digits
C7_Witness ==
    /\ pc = "extract_asn"
    /\ arg = StrArg(<<" ", "1", "3", "A", "s", "3", "3", "5">>)
    /\ result = Return(FromSmall(13335))

\* the call kept in first is a call of the function called last, with the same input
SameCall ==
    /\ pc # "start"
    /\ first # NoFirst
    /\ first.pc = pc
    /\ (pc # "is_bogon_pfx" => first.arg.type = arg.type /\ first.arg.v = arg.v)
    /\ (pc = "is_bogon_pfx" => first.arg = arg)
    /\ (pc = "is_out_of_encoding_range" => first.ceiling = max_asn_encoding)

\* C8: after any sequence of calls the two tables are as they were built, and
\* a call gives the outcome an earlier call of the same function with the same
\* input gave.
C8_TablesUnchangedAndRepeatable ==
    /\ SPECIAL_IPV4_NETWORKS = Networks(SPECIAL_IPV4)
    /\ SPECIAL_IPV6_NETWORKS = Networks(SPECIAL_IPV6)
    /\ SameCall => first.result = result

\* 10.0.0.0/8 classified a second time
C8_Witness ==
    /\ SameCall
    /\ pc = "is_bogon_pfx"
    /\ arg = Lit4(10, 0, 0, 0, 8)
    /\ result = Return(TRUE)

-----------------------------------------------------------------------------
(* Properties of the run context *)

NumericOrAbsent(x) == x = None \/ PlainUnsigned(x)
ArgEpoch(c) ==
    IF Truthy(c.args.wait) THEN c.args.wait
    ELSE IF Truthy(c.args.epoch) THEN c.args.epoch
    ELSE c.epoch

\* C9 as stated, for the runs that found the folder to reproduce and whose
\* epoch arguments are numbers: a reproduction run sets epoch_dir to "r" and
\* the epoch, any other run to the epoch, where the epoch is wait if given,
\* else epoch if given, else the time.
C9_EpochDirSet ==
    (runs > 0 /\ ctx.exc # "FileNotFoundError"
        /\ NumericOrAbsent(ctx.args.wait) /\ NumericOrAbsent(ctx.args.epoch)) =>
        /\ ctx.epoch = ArgEpoch(ctx)
        /\ (Truthy(ctx.args.wait) \/ Truthy(ctx.args.epoch) \/ ctx.epoch \in Times)
        /\ ctx.epoch_dir = IF ctx.args.reproduce.given THEN <<"r">> \o ctx.epoch ELSE ctx.epoch

\* C10: a non-reproduction run that finds data/<epoch> there ends in
\* SystemExit and creates nothing; a non-reproduction run that creates a
\* directory is the first such run of its epoch.
C10_OneCreatorPerEpoch ==
    [][ (runs' = runs + 1 /\ ~ctx'.args.reproduce.given) =>
            /\ (Cwd \o << <<"data">>, ArgEpoch(ctx') >>) \in fs
                    => (ctx'.exc = "SystemExit" /\ fs' = fs)
            /\ fs' # fs => ArgEpoch(ctx') \notin creators ]_vars

\* a second non-reproduction run of an epoch has exited
C10_Witness ==
    /\ runs = 2
    /\ ~ctx.args.reproduce.given
    /\ ctx.exc = "SystemExit"
    /\ ctx.epoch \in creators
    /\ (Cwd \o << <<"data">>, ctx.epoch, <<"rpki">>, <<"cache">> >>) \in fs

====
